---------------------------- MODULE Spec2Model ----------------------------
(***************************************************************************)
(* Sharded lock-free token-bucket rate limiter (package rate).             *)
(*                                                                         *)
(* The limiter keeps numBuckets packed words, each holding an 8-bit level  *)
(* and a wrapping timestamp.  Check and TakeToken read the clock once,     *)
(* load the word of the bucket their identifier hashes to, refill it as of *)
(* the clock reading and (TakeToken) take one token and install the new    *)
(* word with a compare-and-swap, retrying from the load when it fails.     *)
(*                                                                         *)
(* Times are nanosecond counts.  The timestamp of the program is 56 bits   *)
(* wide; the model keeps the same modular arithmetic at TimeBits bits.     *)
(***************************************************************************)
EXTENDS Integers, Sequences, FiniteSets, TLC

(* ------------------------------ bounds -------------------------------- *)

\* width of the wrapping timestamp in the model (56 in the program)
TimeBits == 10
\* the clock advances at most this many nanoseconds past the first reading
MaxTime == 2
\* goroutines calling the limiter concurrently
NumProcs == 2
\* largest numBuckets handed to the constructor by the concurrent model
MaxBuckets == 2
\* largest burstCapacity handed to the constructor by the concurrent model
MaxCap == 2
\* calls started in one behaviour of the concurrent model
MaxCalls == 2
\* largest numBuckets handed to the constructor on its own
NewMaxBuckets == 64
\* largest burstCapacity of the sequential scenario
ScenarioCap == 5
\* calls made in one behaviour of the sequential scenario
ScenarioCalls == 8
\* whole intervals that pass before the call of the refill-only limiter
RefillMaxK == 255
\* the sequential caller that polls between tokens: nanoseconds it watches,
\* calls it makes, largest burst capacity
DriftTime == 6
DriftCalls == 5
DriftCap == 3
\* calls of the caller that exercises the sharding
IndexCalls == 2
\* callers that stall between their clock reading and their write: calls
\* they make, nanoseconds they run for
StaleCalls == 3
StaleTime == 3

(* --------------------------- integer helpers --------------------------- *)

RECURSIVE Pow2(_)
Pow2(k) == IF k = 0 THEN 1 ELSE 2 * Pow2(k - 1)

Abs(x) == IF x < 0 THEN -x ELSE x

\* Go's integer division truncates toward zero (b # 0)
GoDiv(a, b) ==
  LET q == Abs(a) \div Abs(b)
  IN  IF (a < 0) # (b < 0) THEN -q ELSE q

\* Go's remainder has the sign of the dividend (b # 0)
GoRem(a, b) == a - b * GoDiv(a, b)

RECURSIVE BitAnd(_, _)
BitAnd(a, b) ==
  IF a = 0 \/ b = 0 THEN 0
  ELSE (a % 2) * (b % 2) + 2 * BitAnd(a \div 2, b \div 2)

RECURSIVE BitXor(_, _)
BitXor(a, b) ==
  IF a = 0 THEN b
  ELSE IF b = 0 THEN a
  ELSE ((a + b) % 2) + 2 * BitXor(a \div 2, b \div 2)

\* uint8 arithmetic wraps modulo 256
U8(x) == x % 256

(* ------------------------------- time56 -------------------------------- *)

TimeMod == Pow2(TimeBits)
TimeHalf == Pow2(TimeBits - 1)

\* time56.Unix: the low bits of a nanosecond count
Unix(ns) == ns % TimeMod

\* time56.Time.Since: the wrapping difference, read as a signed number
Since(t, past) ==
  LET d == (t - past) % TimeMod
  IN  IF d >= TimeHalf THEN d - TimeMod ELSE d

\* time56.Time.Sub: the stamp ns nanoseconds earlier, wrapping
Sub(t, ns) == (t - ns) % TimeMod

\* time56.Time.Pack: the level in the high 8 bits, the stamp below
Pack(t, v) == v * TimeMod + t

\* time56.Unpack: <<level, stamp>> of a packed word
Unpack(w) == <<w \div TimeMod, w % TimeMod>>

(* ----------------------------- tokenBucket ----------------------------- *)

newTokenBucket(level, stamp) == [level |-> level, stamp |-> stamp]

packed(b) == Pack(b.stamp, b.level)

unpack(w) == newTokenBucket(Unpack(w)[1], Unpack(w)[2])

\* the division elapsed / rate of refill panics when rate is zero
refillPanics(b, nowNS, rate) ==
  Since(Unix(nowNS), b.stamp) > 0 /\ rate = 0

\* refill that adds the accrued tokens without the cap at maxLevel
refillNoCap(b, nowNS, rate, maxLevel) ==
  LET now == Unix(nowNS)
      elapsed == Since(now, b.stamp)
  IN  IF elapsed <= 0 \/ GoDiv(elapsed, rate) <= 0 THEN b
      ELSE [level |-> U8(b.level + U8(GoDiv(elapsed, rate))),
            stamp |-> Sub(now, GoRem(elapsed, rate))]

\* refill that credits a token for a started interval (rounds up)
refillEager(b, nowNS, rate, maxLevel) ==
  LET now == Unix(nowNS)
      elapsed == Since(now, b.stamp)
  IN  IF elapsed <= 0 \/ rate <= 0 THEN b
      ELSE
        LET tokens == (elapsed + rate - 1) \div rate
            avail == U8(maxLevel - b.level)
            level == IF tokens < avail THEN U8(b.level + U8(tokens))
                     ELSE maxLevel
        IN  IF b.level # level
            THEN [level |-> level, stamp |-> now]
            ELSE b

\* refill that credits a token only after more than a whole interval
refillLate(b, nowNS, rate, maxLevel) ==
  LET now == Unix(nowNS)
      elapsed == Since(now, b.stamp)
  IN  IF elapsed <= 0 \/ rate <= 0 THEN b
      ELSE
        LET tokens == (elapsed - 1) \div rate
            avail == U8(maxLevel - b.level)
            level == IF tokens < avail THEN U8(b.level + U8(tokens))
                     ELSE maxLevel
        IN  IF tokens > 0 /\ b.level # level
            THEN [level |-> level,
                  stamp |-> Sub(now, GoRem(elapsed, rate))]
            ELSE b

\* refill, where it does not panic
\* refill that stamps the bucket with the reading on every call
refillRestamp(b, nowNS, rate, maxLevel) ==
  LET elapsed == Since(Unix(nowNS), b.stamp)
      tokens == IF rate = 0 \/ elapsed <= 0 THEN 0 ELSE GoDiv(elapsed, rate)
      avail == U8(maxLevel - b.level)
      level == IF tokens <= 0 THEN b.level
               ELSE IF tokens < avail THEN U8(b.level + U8(tokens))
               ELSE maxLevel
  IN  newTokenBucket(level, Unix(nowNS))

\* refill without the early return on elapsed <= 0
refillNoGuard(b, nowNS, rate, maxLevel) ==
  LET elapsed == Since(Unix(nowNS), b.stamp)
      tokens == IF rate = 0 THEN 0 ELSE GoDiv(elapsed, rate)
      avail == U8(maxLevel - b.level)
      level == IF tokens < avail THEN U8(b.level + U8(tokens)) ELSE maxLevel
  IN  IF tokens <= 0 \/ b.level = level
      THEN b
      ELSE newTokenBucket(level, Sub(Unix(nowNS), GoRem(elapsed, rate)))

\* refill that stamps the bucket with the reading, dropping the remainder
refillDropRemainder(b, nowNS, rate, maxLevel) ==
  LET elapsed == Since(Unix(nowNS), b.stamp)
      tokens == IF rate = 0 THEN 0 ELSE GoDiv(elapsed, rate)
      avail == U8(maxLevel - b.level)
      level == IF tokens < avail THEN U8(b.level + U8(tokens)) ELSE maxLevel
  IN  IF elapsed <= 0 \/ tokens <= 0 \/ b.level = level
      THEN b
      ELSE newTokenBucket(level, Unix(nowNS))

\* refill adding the tokens in uint8 before comparing with the capacity
refillWrap(b, nowNS, rate, maxLevel) ==
  LET elapsed == Since(Unix(nowNS), b.stamp)
      tokens == IF rate = 0 THEN 0 ELSE GoDiv(elapsed, rate)
      sum == U8(b.level + U8(tokens))
      level == IF sum < maxLevel THEN sum ELSE maxLevel
  IN  IF elapsed <= 0 \/ tokens <= 0 \/ b.level = level
      THEN b
      ELSE newTokenBucket(level, Sub(Unix(nowNS), GoRem(elapsed, rate)))

refill(b, nowNS, rate, maxLevel) ==
  LET now == Unix(nowNS)
      elapsed == Since(now, b.stamp)
  IN  IF elapsed <= 0 THEN b
      ELSE
        LET tokens == GoDiv(elapsed, rate)
        IN  IF tokens <= 0 THEN b
            ELSE
              LET avail == U8(maxLevel - b.level)
                  level == IF tokens < avail THEN U8(b.level + U8(tokens))
                           ELSE maxLevel
              IN  IF b.level # level
                  THEN [level |-> level,
                        stamp |-> Sub(now, GoRem(elapsed, rate))]
                  ELSE b

\* take that reports success without removing the token
takeNoDecrement(b) ==
  [bucket |-> b, taken |-> b.level > 0]

take(b) ==
  IF b.level > 0
  THEN [bucket |-> [b EXCEPT !.level = b.level - 1], taken |-> TRUE]
  ELSE [bucket |-> b, taken |-> FALSE]

(* ------------------------------ limiter -------------------------------- *)

\* nanoRate: int64(float64(unit) * refillRate); refillRate is the rational
\* r[1] / r[2], and the conversion to int64 truncates toward zero
nanoRate(refillRateUnit, refillRate) ==
  GoDiv(refillRateUnit * refillRate[1], refillRate[2])

\* the power-of-two test without its numBuckets != 0 conjunct
powerOfTwoNoZero(numBuckets) ==
  BitAnd(numBuckets, numBuckets - 1) = 0

\* numBuckets - 1 wraps for numBuckets = 0; the and with 0 is 0 all the same
powerOfTwo(numBuckets) ==
  (numBuckets # 0) /\ (BitAnd(numBuckets, numBuckets - 1) = 0)

\* index masks the 64-bit FNV-1a state with numBuckets - 1; xor and the
\* multiplication act on the low HashBits bits independently of the bits
\* above them, so the low bits are computed exactly (numBuckets <= HashMod)
HashMod == Pow2(16)
\* 14695981039346656037 = 0xcbf29ce484222325, low 16 bits 0x2325
FnvOffset == 8997
\* 1099511628211 = 0x100000001b3, low 16 bits 0x01b3
FnvPrime == 435

RECURSIVE fnv(_, _)
fnv(h, id) ==
  IF id = << >> THEN h
  ELSE fnv((BitXor(h, Head(id)) * FnvPrime) % HashMod, Tail(id))

\* index hashing from a zero basis instead of the FNV offset basis
indexZeroBasis(id, bucketMask) == BitAnd(fnv(0, id), bucketMask)

index(id, bucketMask) == BitAnd(fnv(FnvOffset, id), bucketMask)

(* ------------------------------- state --------------------------------- *)

Procs == 1 .. NumProcs

\* identifiers (byte strings) the callers present
Ids == { << >>, <<1>> }

VARIABLES
  clock,                \* what nowfn().UnixNano() returns
  constructed,          \* NewTokenBucketLimiter returned a limiter
  err,                  \* NewTokenBucketLimiter returned an error
  buckets,              \* atomicSliceUint64: index -> packed word
  bucketMask,
  burstCapacity,
  refillIntervalNanos,
  numBuckets,
  pc,                   \* per goroutine: "idle", "load", "cas", "done"
                        \* ("done": returned, free to call again)
  op,                   \* per goroutine: "take" or "check"
  idx,                  \* per goroutine: index of the call
  now,                  \* per goroutine: the call's clock reading
  existing,             \* per goroutine: the word it loaded
  ret,                  \* per goroutine: the value the call returns
  aborted,              \* a call panicked (the program is gone)
  \* history, read by the properties only
  t0,                   \* clock at construction
  lastRead,             \* latest clock reading taken by any call
  ncalls,               \* calls started
  wins,                 \* per bucket: TakeToken calls that returned true
  doneAt,               \* per bucket: TakeToken calls read at the current
                        \* clock value that have completed
  winsAt,               \* per bucket: those of doneAt that returned true
  ripe,                 \* per bucket: at the last tick the bucket was empty
                        \* and the tick brought the clock to stamp + rate
  absb,                 \* the buckets of the atomic (sequential) limiter
  absRet,               \* per goroutine: what the atomic limiter returned
  lin,                  \* per goroutine: the call has taken effect
  retried,              \* per goroutine: the call lost a compare-and-swap
  swaps,                \* per goroutine: compare-and-swaps of the call that
                        \* succeeded
  sat,                  \* per bucket: the refill of a TakeToken call that
                        \* returned was cut short by the capacity
  argBuckets            \* the numBuckets the constructor was given

cfgvars == <<constructed, err, bucketMask, burstCapacity,
             refillIntervalNanos, numBuckets, t0>>
procvars == <<pc, op, idx, now, existing, ret>>
histvars == <<lastRead, ncalls, wins, doneAt, winsAt, ripe, absb, absRet, lin,
              retried, swaps, sat, argBuckets>>
vars == <<clock, buckets, aborted, cfgvars, procvars, histvars>>

\* the clock of the first reading: zero, or just below the wrap of the stamp
ClockStarts == {0, TimeMod - 2}

Init ==
  /\ clock \in ClockStarts
  /\ constructed = FALSE
  /\ err = FALSE
  /\ buckets = << >>
  /\ bucketMask = 0
  /\ burstCapacity = 0
  /\ refillIntervalNanos = 0
  /\ numBuckets = 0
  /\ pc = [p \in Procs |-> "idle"]
  /\ op = [p \in Procs |-> "take"]
  /\ idx = [p \in Procs |-> 0]
  /\ now = [p \in Procs |-> 0]
  /\ existing = [p \in Procs |-> 0]
  /\ ret = [p \in Procs |-> FALSE]
  /\ aborted = FALSE
  /\ t0 = 0
  /\ lastRead = 0
  /\ ncalls = 0
  /\ wins = << >>
  /\ doneAt = << >>
  /\ winsAt = << >>
  /\ ripe = << >>
  /\ absb = << >>
  /\ absRet = [p \in Procs |-> FALSE]
  /\ lin = [p \in Procs |-> FALSE]
  /\ retried = [p \in Procs |-> FALSE]
  /\ swaps = [p \in Procs |-> 0]
  /\ sat = << >>
  /\ argBuckets = 0

(* --------------------------- atomic word array ------------------------- *)

newAtomicSliceUint64(n) == [i \in 0 .. n - 1 |-> 0]

Set(a, i, w) == [a EXCEPT ![i] = w]

Get(a, i) == a[i]

\* CompareAndSwap succeeds exactly when the slot still holds old
CompareAndSwap(a, i, old) == a[i] = old

(* ----------------------------- construction ---------------------------- *)

\* buckets.Set(i, packed) for every i below n, as the loop does
setAll(a, n, w) == [i \in DOMAIN a |-> IF i < n THEN Set(a, i, w)[i] ELSE a[i]]

NewTokenBucketLimiter(n, cap, refillRate, refillRateUnit) ==
  /\ ~constructed /\ ~err
  /\ argBuckets' = n
  /\ IF ~powerOfTwo(n)
     THEN /\ err' = TRUE
          /\ UNCHANGED <<constructed, buckets, bucketMask, burstCapacity,
                         refillIntervalNanos, numBuckets, t0, lastRead,
                         wins, doneAt, winsAt, ripe, absb, sat>>
     ELSE LET stamp == Unix(clock)
              word == packed(newTokenBucket(cap, stamp))
              bs == setAll(newAtomicSliceUint64(n), n, word)
          IN  /\ constructed' = TRUE
              /\ buckets' = bs
              /\ burstCapacity' = cap
              /\ numBuckets' = n
              /\ refillIntervalNanos' = nanoRate(refillRateUnit, refillRate)
              /\ bucketMask' = n - 1
              /\ t0' = clock
              /\ lastRead' = clock
              /\ wins' = [i \in 0 .. n - 1 |-> 0]
              /\ doneAt' = [i \in 0 .. n - 1 |-> 0]
              /\ winsAt' = [i \in 0 .. n - 1 |-> 0]
              /\ ripe' = [i \in 0 .. n - 1 |-> FALSE]
              /\ absb' = bs
              /\ sat' = [i \in 0 .. n - 1 |-> FALSE]
              /\ UNCHANGED err
  /\ UNCHANGED <<clock, aborted, procvars, ncalls, absRet, lin, retried,
                 swaps>>

(* ------------------------------ TakeToken ------------------------------ *)

\* a pass that issues the compare-and-swap whether or not the word changed
attemptAlwaysWrite(word, nowNS, rate, maxLevel) ==
  LET r == take(refill(unpack(word), nowNS, rate, maxLevel))
  IN  [updated |-> r.bucket, taken |-> r.taken, write |-> TRUE]

\* what one pass of the loop of takeTokenInner computes from a loaded word
attempt(word, nowNS, rate, maxLevel) ==
  LET unpacked == unpack(word)
      refilled == refill(unpacked, nowNS, rate, maxLevel)
      r == take(refilled)
  IN  [updated |-> r.bucket, taken |-> r.taken,
       write |-> r.bucket # unpacked]

\* TakeToken: the index of id, then the clock reading of takeTokenInner
TakeToken(p, id) ==
  /\ constructed /\ ~aborted
  /\ pc[p] \in {"idle", "done"}
  /\ pc' = [pc EXCEPT ![p] = "load"]
  /\ op' = [op EXCEPT ![p] = "take"]
  /\ idx' = [idx EXCEPT ![p] = index(id, bucketMask)]
  /\ now' = [now EXCEPT ![p] = clock]
  /\ lastRead' = IF clock > lastRead THEN clock ELSE lastRead
  /\ ncalls' = ncalls + 1
  /\ lin' = [lin EXCEPT ![p] = FALSE]
  /\ retried' = [retried EXCEPT ![p] = FALSE]
  /\ swaps' = [swaps EXCEPT ![p] = 0]
  /\ UNCHANGED <<clock, buckets, aborted, cfgvars, existing, ret,
                 wins, doneAt, winsAt, ripe, absb, absRet, sat, argBuckets>>

\* the atomic limiter: refill as of the reading, then take, in one step
atomicTake(word, nowNS, rate, maxLevel) ==
  LET b == take(refill(unpack(word), nowNS, rate, maxLevel))
  IN  [word |-> packed(b.bucket), taken |-> b.taken]

\* existing := t.buckets.Get(index)
takeTokenInnerLoad(p) ==
  /\ ~aborted
  /\ pc[p] = "load" /\ op[p] = "take"
  /\ existing' = [existing EXCEPT ![p] = Get(buckets, idx[p])]
  /\ pc' = [pc EXCEPT ![p] = "cas"]
  \* a call that will not write takes effect at its load
  /\ LET aw == absb[idx[p]]
         quiet == /\ ~refillPanics(unpack(aw), now[p], refillIntervalNanos)
                  /\ atomicTake(aw, now[p], refillIntervalNanos,
                                burstCapacity).word = aw
     IN  /\ lin' = [lin EXCEPT ![p] = quiet]
         /\ absRet' = [absRet EXCEPT ![p] =
               IF quiet
               THEN atomicTake(aw, now[p], refillIntervalNanos,
                               burstCapacity).taken
               ELSE absRet[p]]
  /\ UNCHANGED <<clock, buckets, aborted, cfgvars, op, idx, now, ret,
                 lastRead, ncalls, wins, doneAt, winsAt, ripe, absb,
                 retried, swaps, sat, argBuckets>>

\* the tokens due reach the room left below maxLevel (level := maxLevel)
saturates(b, nowNS, rate, maxLevel) ==
  /\ rate # 0
  /\ Since(Unix(nowNS), b.stamp) > 0
  /\ GoDiv(Since(Unix(nowNS), b.stamp), rate) > 0
  /\ GoDiv(Since(Unix(nowNS), b.stamp), rate) >= maxLevel - b.level

\* the history of a TakeToken call on bucket i that returns taken
returned(p, i, taken) ==
  /\ sat' = [sat EXCEPT ![i] =
               @ \/ saturates(unpack(existing[p]), now[p],
                              refillIntervalNanos, burstCapacity)]
  /\ wins' = [wins EXCEPT ![i] = @ + (IF taken THEN 1 ELSE 0)]
  /\ doneAt' = [doneAt EXCEPT ![i] = @ + (IF now[p] = clock THEN 1 ELSE 0)]
  /\ winsAt' = [winsAt EXCEPT ![i] =
                  @ + (IF taken /\ now[p] = clock THEN 1 ELSE 0)]

\* a plain store in place of the compare-and-swap
swappedBlind(p) == TRUE

\* t.buckets.CompareAndSwap(index, existing, updated.packed()) of p
swapped(p) == CompareAndSwap(buckets, idx[p], existing[p])

\* the compare-and-swap landing on the first slot whatever the index
storedFirst(p, w) == Set(buckets, 0, w)

\* the array after the compare-and-swap of p at its index succeeded
stored(p, w) == Set(buckets, idx[p], w)

\* refill, take, and the compare-and-swap when the word changed
takeTokenInnerCAS(p) ==
  /\ ~aborted
  /\ pc[p] = "cas" /\ op[p] = "take"
  /\ LET i == idx[p]
         rate == refillIntervalNanos
     IN  IF refillPanics(unpack(existing[p]), now[p], rate)
         THEN /\ aborted' = TRUE
              /\ pc' = [pc EXCEPT ![p] = "panic"]
              /\ UNCHANGED <<buckets, ret, wins, doneAt, winsAt, absb,
                             absRet, lin, retried, swaps, sat>>
         ELSE
           LET a == attempt(existing[p], now[p], rate, burstCapacity)
           IN  IF a.write
               THEN IF swapped(p)
                    THEN /\ buckets' = stored(p, packed(a.updated))
                         /\ UNCHANGED retried
                         /\ swaps' = [swaps EXCEPT ![p] = @ + 1]
                         /\ ret' = [ret EXCEPT ![p] = a.taken]
                         /\ pc' = [pc EXCEPT ![p] = "done"]
                         /\ returned(p, i, a.taken)
                         \* the call takes effect at its compare-and-swap
                         /\ IF refillPanics(unpack(absb[i]), now[p], rate)
                            THEN UNCHANGED <<absb, absRet, lin>>
                            ELSE
                              LET s == atomicTake(absb[i], now[p], rate,
                                                  burstCapacity)
                              IN  /\ absb' = [absb EXCEPT ![i] = s.word]
                                  /\ absRet' = [absRet EXCEPT ![p] = s.taken]
                                  /\ lin' = [lin EXCEPT ![p] = TRUE]
                         /\ UNCHANGED aborted
                    ELSE /\ pc' = [pc EXCEPT ![p] = "load"]
                         /\ retried' = [retried EXCEPT ![p] = TRUE]
                         /\ UNCHANGED <<buckets, ret, aborted, wins, doneAt,
                                        winsAt, absb, absRet, lin, swaps,
                                        sat>>
               ELSE /\ ret' = [ret EXCEPT ![p] = a.taken]
                    /\ pc' = [pc EXCEPT ![p] = "done"]
                    /\ returned(p, i, a.taken)
                    /\ UNCHANGED <<buckets, aborted, absb, absRet, lin,
                                   retried, swaps>>
  /\ UNCHANGED <<clock, cfgvars, op, idx, now, existing, lastRead, ncalls,
                 ripe, argBuckets>>

(* -------------------------------- Check -------------------------------- *)

\* Check: the index of id, then the clock reading of checkInner
Check(p, id) ==
  /\ constructed /\ ~aborted
  /\ pc[p] \in {"idle", "done"}
  /\ pc' = [pc EXCEPT ![p] = "load"]
  /\ op' = [op EXCEPT ![p] = "check"]
  /\ idx' = [idx EXCEPT ![p] = index(id, bucketMask)]
  /\ now' = [now EXCEPT ![p] = clock]
  /\ lastRead' = IF clock > lastRead THEN clock ELSE lastRead
  /\ ncalls' = ncalls + 1
  /\ lin' = [lin EXCEPT ![p] = FALSE]
  /\ retried' = [retried EXCEPT ![p] = FALSE]
  /\ swaps' = [swaps EXCEPT ![p] = 0]
  /\ UNCHANGED <<clock, buckets, aborted, cfgvars, existing, ret,
                 wins, doneAt, winsAt, ripe, absb, absRet, sat, argBuckets>>

\* checkInner answering true only with two tokens available
checkAnswerStrict(bucket, nowNS, rate, maxLevel) ==
  refill(bucket, nowNS, rate, maxLevel).level > 1

\* refilled.level > 0 of checkInner
checkAnswer(bucket, nowNS, rate, maxLevel) ==
  refill(bucket, nowNS, rate, maxLevel).level > 0

\* the load of checkInner, its refill and its answer
checkInnerBody(p) ==
  /\ ~aborted
  /\ pc[p] = "load" /\ op[p] = "check"
  /\ existing' = [existing EXCEPT ![p] = Get(buckets, idx[p])]
  /\ LET bucket == unpack(Get(buckets, idx[p]))
         rate == refillIntervalNanos
     IN  IF refillPanics(bucket, now[p], rate)
         THEN /\ aborted' = TRUE
              /\ pc' = [pc EXCEPT ![p] = "panic"]
              /\ UNCHANGED <<ret, absRet, lin>>
         ELSE /\ ret' = [ret EXCEPT ![p] =
                     checkAnswer(bucket, now[p], rate, burstCapacity)]
              /\ pc' = [pc EXCEPT ![p] = "done"]
              /\ absRet' = [absRet EXCEPT ![p] =
                     refill(unpack(absb[idx[p]]), now[p], rate,
                            burstCapacity).level > 0]
              /\ lin' = [lin EXCEPT ![p] = TRUE]
              /\ UNCHANGED aborted
  /\ UNCHANGED <<clock, cfgvars, op, idx, now, lastRead, ncalls,
                 wins, doneAt, winsAt, ripe, absb, retried, swaps, sat,
                 argBuckets>>

\* checkInner publishing the refilled bucket
checkInnerPublish(p) ==
  /\ checkInnerBody(p)
  /\ buckets' =
       IF refillPanics(unpack(buckets[idx[p]]), now[p], refillIntervalNanos)
       THEN buckets
       ELSE Set(buckets, idx[p],
                packed(refill(unpack(buckets[idx[p]]), now[p],
                              refillIntervalNanos, burstCapacity)))

\* checkInner stores nothing
checkInner(p) == checkInnerBody(p) /\ UNCHANGED buckets

(* --------------------------- callers and clock ------------------------- *)

\* the clock advances by d nanoseconds
Tick(d) ==
  /\ ~aborted
  /\ d > 0
  /\ clock' = clock + d
  /\ IF constructed
     THEN /\ doneAt' = [i \in DOMAIN doneAt |-> 0]
          /\ winsAt' = [i \in DOMAIN winsAt |-> 0]
          /\ ripe' = [i \in DOMAIN ripe |->
                /\ unpack(buckets[i]).level = 0
                /\ refillIntervalNanos > 0
                /\ Since(Unix(clock'), unpack(buckets[i]).stamp)
                     = refillIntervalNanos]
     ELSE UNCHANGED <<doneAt, winsAt, ripe>>
  /\ UNCHANGED <<buckets, aborted, cfgvars, procvars, lastRead, ncalls,
                 wins, absb, absRet, lin, retried, swaps, sat, argBuckets>>

\* the clock steps back by d nanoseconds (nowfn reads the wall clock)
Rewind(d) ==
  /\ ~aborted
  /\ d > 0
  /\ clock' = clock - d
  /\ IF constructed
     THEN /\ doneAt' = [i \in DOMAIN doneAt |-> 0]
          /\ winsAt' = [i \in DOMAIN winsAt |-> 0]
          /\ ripe' = [i \in DOMAIN ripe |-> FALSE]
     ELSE UNCHANGED <<doneAt, winsAt, ripe>>
  /\ UNCHANGED <<buckets, aborted, cfgvars, procvars, lastRead, ncalls,
                 wins, absb, absRet, lin, retried, swaps, sat, argBuckets>>

(* ------------------------ the concurrent limiter ----------------------- *)

\* refillRate values (rationals) and units the constructor is given
RefillRates == { <<-1, 1>>, <<1, 3>>, <<1, 2>>, <<1, 1>> }
RefillUnits == { 2 }

\* goroutines are interchangeable: goroutine p makes its first call after
\* goroutine p - 1 has made one
Next ==
  \/ \E n \in 0 .. MaxBuckets, cap \in 0 .. MaxCap,
        r \in RefillRates, u \in RefillUnits :
        NewTokenBucketLimiter(n, cap, r, u)
  \/ \E p \in Procs, id \in Ids :
        /\ ncalls < MaxCalls
        /\ IF p = 1 THEN TRUE ELSE pc[p - 1] # "idle"
        /\ TakeToken(p, id)
  \/ \E p \in Procs, id \in Ids :
        /\ ncalls < MaxCalls
        /\ IF p = 1 THEN TRUE ELSE pc[p - 1] # "idle"
        /\ Check(p, id)
  \/ \E p \in Procs : takeTokenInnerLoad(p)
  \/ \E p \in Procs : takeTokenInnerCAS(p)
  \/ \E p \in Procs : checkInner(p)
  \/ \E d \in 1 .. MaxTime :
        constructed /\ clock + d <= t0 + MaxTime /\ Tick(d)

Spec == Init /\ [][Next]_vars

\* the scheduler runs every goroutine that has a step to take: a call in
\* flight is not suspended forever
step(p) == takeTokenInnerLoad(p) \/ takeTokenInnerCAS(p) \/ checkInner(p)

SpecFair == Init /\ [][Next]_vars /\ \A p \in Procs : WF_vars(step(p))

(* -------------------- the constructor on its own ----------------------- *)

NextNew ==
  \E n \in 0 .. NewMaxBuckets, cap \in 0 .. MaxCap,
     r \in RefillRates, u \in RefillUnits :
     NewTokenBucketLimiter(n, cap, r, u)

SpecNew == Init /\ [][NextNew]_vars

(* ------- a burst: every goroutine calls TakeToken once, clock held ----- *)

\* refillRate values that give a positive interval with RefillUnits
PositiveRates == { <<1, 2>>, <<1, 1>> }

NextBurst ==
  \/ \E cap \in 0 .. MaxCap, r \in PositiveRates, u \in RefillUnits :
        NewTokenBucketLimiter(1, cap, r, u)
  \/ \E p \in Procs : pc[p] = "idle" /\ TakeToken(p, <<1>>)
  \/ \E p \in Procs : takeTokenInnerLoad(p)
  \/ \E p \in Procs : takeTokenInnerCAS(p)

SpecBurst == Init /\ [][NextBurst]_vars

(* ------------- the sequential scenario: one caller, one bucket --------- *)

\* the unit of the scenario ("one second"), in nanoseconds of the model
Second == MaxTime

NextScenario ==
  \/ \E cap \in 0 .. ScenarioCap, u \in {1, Second} :
        NewTokenBucketLimiter(1, cap, <<1, 1>>, u)
  \/ ncalls < ScenarioCalls /\ TakeToken(1, <<1>>)
  \/ takeTokenInnerLoad(1)
  \/ takeTokenInnerCAS(1)
  \/ \E d \in 1 .. MaxTime :
        constructed /\ clock + d <= t0 + MaxTime /\ Tick(d)

SpecScenario == Init /\ [][NextScenario]_vars

(* ---------- refill on its own: one bucket, one call after a wait ------- *)

\* burst capacities and stored levels of the bucket the call finds
RefillCaps == {0, 1, 2, 127, Pow2(8) - 1}
RefillLevels(cap) ==
  {l \in {0, 1, 2, 100, 200, cap - 2, cap - 1, cap} : 0 <= l /\ l <= cap}

\* a limiter of one bucket that admitted cap - l calls at its construction
\* time t and was then left alone for k whole intervals
InitRefill ==
  \E t \in ClockStarts, cap \in RefillCaps, r \in PositiveRates,
     u \in RefillUnits, k \in 1 .. RefillMaxK :
    \E l \in RefillLevels(cap) :
      LET word == packed(newTokenBucket(l, Unix(t)))
      IN  /\ clock = t + k * nanoRate(u, r)
          /\ constructed = TRUE
          /\ err = FALSE
          /\ buckets = Set(newAtomicSliceUint64(1), 0, word)
          /\ bucketMask = 0
          /\ burstCapacity = cap
          /\ refillIntervalNanos = nanoRate(u, r)
          /\ numBuckets = 1
          /\ pc = [p \in Procs |-> "idle"]
          /\ op = [p \in Procs |-> "take"]
          /\ idx = [p \in Procs |-> 0]
          /\ now = [p \in Procs |-> 0]
          /\ existing = [p \in Procs |-> 0]
          /\ ret = [p \in Procs |-> FALSE]
          /\ aborted = FALSE
          /\ t0 = t
          /\ lastRead = t
          /\ ncalls = 0
          /\ wins = [i \in 0 .. 0 |-> cap - l]
          /\ doneAt = [i \in 0 .. 0 |-> 0]
          /\ winsAt = [i \in 0 .. 0 |-> 0]
          /\ ripe = [i \in 0 .. 0 |-> l = 0 /\ k = 1]
          /\ absb = Set(newAtomicSliceUint64(1), 0, word)
          /\ absRet = [p \in Procs |-> FALSE]
          /\ lin = [p \in Procs |-> FALSE]
          /\ retried = [p \in Procs |-> FALSE]
          /\ swaps = [p \in Procs |-> 0]
          /\ sat = [i \in 0 .. 0 |-> FALSE]
          /\ argBuckets = 1

NextRefill ==
  \/ ncalls < 1 /\ TakeToken(1, <<1>>)
  \/ ncalls < 1 /\ Check(1, <<1>>)
  \/ takeTokenInnerLoad(1)
  \/ takeTokenInnerCAS(1)
  \/ checkInner(1)

SpecRefill == InitRefill /\ [][NextRefill]_vars

(* ------- one caller polling one bucket at and between token times ------ *)

\* per-token intervals of the polled limiter (refillRate 1, these units)
DriftUnits == {2, 3}

NextDrift ==
  \/ \E cap \in 1 .. DriftCap, u \in DriftUnits :
        NewTokenBucketLimiter(1, cap, <<1, 1>>, u)
  \/ ncalls < DriftCalls /\ TakeToken(1, <<1>>)
  \/ ncalls < DriftCalls /\ Check(1, <<1>>)
  \/ takeTokenInnerLoad(1)
  \/ takeTokenInnerCAS(1)
  \/ checkInner(1)
  \/ \E d \in 1 .. DriftTime :
        constructed /\ clock + d <= t0 + DriftTime /\ Tick(d)

SpecDrift == Init /\ [][NextDrift]_vars

(* ----- a clock that may step back: one caller, one bucket, any rate ---- *)

NextSkew ==
  \/ \E cap \in 0 .. MaxCap, r \in RefillRates, u \in RefillUnits :
        NewTokenBucketLimiter(1, cap, r, u)
  \/ ncalls < MaxCalls /\ TakeToken(1, <<1>>)
  \/ ncalls < MaxCalls /\ Check(1, <<1>>)
  \/ takeTokenInnerLoad(1)
  \/ takeTokenInnerCAS(1)
  \/ checkInner(1)
  \/ \E d \in 1 .. MaxTime :
        constructed /\ clock + d <= t0 + MaxTime /\ Tick(d)
  \/ \E d \in 1 .. MaxTime :
        constructed /\ clock - d >= t0 - MaxTime /\ Rewind(d)

SpecSkew == Init /\ [][NextSkew]_vars

(* ------------- sharding: one caller, identifiers of any length --------- *)

\* identifiers: empty, single bytes 0x00 0x01 "a" 0xff, "ab", "foobar"
IndexIds ==
  { << >>, <<0>>, <<1>>, <<97>>, <<255>>, <<97, 98>>,
    <<102, 111, 111, 98, 97, 114>> }

NextIndex ==
  \/ \E n \in 0 .. NewMaxBuckets, u \in RefillUnits :
        NewTokenBucketLimiter(n, 1, <<1, 1>>, u)
  \/ \E id \in IndexIds : ncalls < IndexCalls /\ TakeToken(1, id)
  \/ \E id \in IndexIds : ncalls < IndexCalls /\ Check(1, id)
  \/ takeTokenInnerLoad(1)
  \/ takeTokenInnerCAS(1)
  \/ checkInner(1)

SpecIndex == Init /\ [][NextIndex]_vars

(* ---- stalled callers: one bucket, positive interval, TakeToken only ---- *)

NextStale ==
  \/ \E cap \in 1 .. MaxCap, r \in PositiveRates, u \in RefillUnits :
        NewTokenBucketLimiter(1, cap, r, u)
  \/ \E p \in Procs :
        /\ ncalls < StaleCalls
        /\ IF p = 1 THEN TRUE ELSE pc[p - 1] # "idle"
        /\ TakeToken(p, <<1>>)
  \/ \E p \in Procs : takeTokenInnerLoad(p)
  \/ \E p \in Procs : takeTokenInnerCAS(p)
  \/ \E d \in 1 .. StaleTime :
        constructed /\ clock + d <= t0 + StaleTime /\ Tick(d)

SpecStale == Init /\ [][NextStale]_vars

(* ============================== properties ============================= *)

level(w) == unpack(w).level
stamp(w) == unpack(w).stamp

\* the level Check computes from word w at clock reading t
available(w, t) ==
  refill(unpack(w), t, refillIntervalNanos, burstCapacity).level

\* a TakeToken call of p returns in this step, with result r
takeReturns(p, r) ==
  /\ op[p] = "take" /\ pc[p] = "cas"
  /\ pc'[p] = "done" /\ ret'[p] = r

(* C1: in every reachable state, whatever calls have run and at whatever  *)
(* clock readings, the decoded level of every bucket, stored or loaded by  *)
(* a call, lies in 0 .. burstCapacity.                                     *)
C1_CapacityInvariant ==
  constructed =>
    /\ \A i \in DOMAIN buckets : level(buckets[i]) \in 0 .. burstCapacity
    /\ \A p \in Procs :
         pc[p] \in {"cas", "done"} =>
           level(existing[p]) \in 0 .. burstCapacity

\* a bucket was refilled to a later stamp and a token taken from it
C1_Witness ==
  /\ constructed
  /\ \E i \in DOMAIN buckets :
       /\ wins[i] > burstCapacity
       /\ stamp(buckets[i]) # Unix(t0)
       /\ level(buckets[i]) = burstCapacity - 1

(* C2: on a fresh limiter with the clock held, when each of N >=           *)
(* burstCapacity goroutines has made one TakeToken call for one            *)
(* identifier, exactly burstCapacity calls returned true and the others    *)
(* false, under every interleaving; and no level loaded or stored is       *)
(* outside 0 .. burstCapacity.                                             *)
C2_BurstExact ==
  constructed =>
    /\ \A p \in Procs :
         pc[p] \in {"cas", "done"} =>
           level(existing[p]) \in 0 .. burstCapacity
    /\ level(buckets[0]) \in 0 .. burstCapacity
    /\ ((\A p \in Procs : pc[p] = "done") /\ NumProcs >= burstCapacity) =>
         /\ Cardinality({p \in Procs : ret[p]}) = burstCapacity
         /\ Cardinality({p \in Procs : ~ret[p]}) = NumProcs - burstCapacity

\* all calls returned, one of them after losing a compare-and-swap, and
\* one was refused
C2_Witness ==
  /\ constructed
  /\ \A p \in Procs : pc[p] = "done"
  /\ \E p \in Procs : retried[p]
  /\ \E p \in Procs : ret[p]
  /\ \E p \in Procs : ~ret[p]

(* C3: concurrent TakeToken calls are linearizable: the bucket words       *)
(* always equal those of the atomic limiter, in which each call is one     *)
(* step "refill as of the call's reading, then take" placed at the call's  *)
(* successful compare-and-swap (or at its load when it writes nothing),    *)
(* and every returned call returns what its atomic step returned.          *)
C3_Linearizable ==
  constructed =>
    /\ absb = buckets
    /\ \A p \in Procs : pc[p] = "done" => (lin[p] /\ ret[p] = absRet[p])

\* two calls raced on one bucket: one lost its compare-and-swap, loaded
\* again and took a token
C3_Witness ==
  /\ constructed
  /\ \E p, q \in Procs :
       /\ p # q /\ idx[p] = idx[q]
       /\ op[p] = "take" /\ op[q] = "take"
       /\ pc[p] = "done" /\ pc[q] = "done"
       /\ retried[p] /\ ret[p] /\ ret[q]

(* C4: with a positive interval and a non-decreasing clock, the TakeToken  *)
(* calls on a bucket that returned true, plus the tokens still in it,      *)
(* never exceed burstCapacity + floor((t - T0) / rate), t the latest clock *)
(* reading of any call: no token is granted twice or ahead of time.        *)
C4_NoOverCount ==
  (constructed /\ refillIntervalNanos > 0) =>
    \A i \in DOMAIN buckets :
      wins[i] + level(buckets[i])
        <= burstCapacity + ((lastRead - t0) \div refillIntervalNanos)

\* every token the elapsed time allows has been taken, the refilled ones too
C4_Witness ==
  /\ constructed /\ refillIntervalNanos > 0 /\ lastRead > t0
  /\ \E i \in DOMAIN buckets :
       /\ wins[i] > burstCapacity
       /\ wins[i] = burstCapacity
                     + ((lastRead - t0) \div refillIntervalNanos)

(* C5: for every bucket and every clock reading t, the TakeToken calls     *)
(* made while the clock reads t that return true number at most            *)
(* burstCapacity, however long the bucket sat idle before.                 *)
C5_BurstBound ==
  constructed => \A i \in DOMAIN buckets : winsAt[i] <= burstCapacity

(* C6: whenever a TakeToken call returns true, the level Check computes    *)
(* for its bucket at the call's clock reading is strictly smaller right    *)
(* after the call than right before it.                                    *)
C6_NoFalseAdmission ==
  [][\A p \in Procs :
       takeReturns(p, TRUE) =>
         available(buckets'[idx[p]], now[p])
           < available(buckets[idx[p]], now[p])]_vars

(* C7: Check and TakeToken are total: on every limiter the constructor     *)
(* accepts, a zero or negative interval included, no call ever aborts.     *)
C7_Total == ~aborted

(* C8: the constructor returns an error and no limiter exactly when        *)
(* numBuckets is zero or not a power of two; on success each of the        *)
(* numBuckets buckets holds level = burstCapacity and stamp = the          *)
(* construction time.                                                      *)
C8_Construction ==
  LET isPower == \E k \in 0 .. 15 : argBuckets = Pow2(k)
  IN  /\ err => (~isPower /\ ~constructed /\ buckets = << >>)
      /\ constructed =>
           /\ isPower /\ ~err
           /\ numBuckets = argBuckets
           /\ DOMAIN buckets = 0 .. numBuckets - 1
           /\ \A i \in DOMAIN buckets :
                /\ level(buckets[i]) = burstCapacity
                /\ stamp(buckets[i]) = t0 % TimeMod

\* a limiter of 64 full buckets
C8_Witness ==
  /\ constructed /\ numBuckets = 64 /\ burstCapacity = MaxCap
  /\ level(buckets[63]) = MaxCap

C10_CheckReadOnly ==
  [][\A p \in Procs :
       (op[p] = "check" /\ pc[p] = "load" /\ pc'[p] # "load")
         => buckets' = buckets]_vars

\* a Check answered true from its own refill of a stored empty bucket
C10_Witness ==
  /\ constructed
  /\ \E p \in Procs :
       /\ op[p] = "check" /\ pc[p] = "done" /\ ret[p]
       /\ level(buckets[idx[p]]) = 0

(* C11: Check never over-reports: when a Check call returned r and a       *)
(* TakeToken call on the same bucket, at the same clock reading, loaded    *)
(* the word the Check call loaded (no write in between), the TakeToken     *)
(* call returns r as well.                                                 *)
C11_CheckAgreesWithTake ==
  constructed =>
    \A p, q \in Procs :
      ( /\ op[p] = "check" /\ pc[p] = "done"
        /\ op[q] = "take" /\ pc[q] = "done"
        /\ idx[q] = idx[p] /\ now[q] = now[p]
        /\ existing[q] = existing[p] )
      => ret[q] = ret[p]

\* after the clock advanced, a Check answered true and the TakeToken call
\* that followed on the same word took the token
C11_Witness ==
  /\ constructed /\ clock > t0
  /\ \E p, q \in Procs :
       /\ op[p] = "check" /\ pc[p] = "done" /\ ret[p]
       /\ op[q] = "take" /\ pc[q] = "done" /\ ret[q]
       /\ idx[q] = idx[p] /\ now[q] = now[p] /\ now[p] = clock
       /\ existing[q] = existing[p]

Min(a, b) == IF a < b THEN a ELSE b

(* C12: refill monotonicity: when a call finds a bucket at level L with    *)
(* stamp T and reads the clock at T + k * rate, k >= 1, its refill yields  *)
(* level min(burstCapacity, L + k): Check answers from that level and      *)
(* TakeToken stores that level less the token it takes.                    *)
C12_RefillMonotone ==
  (constructed /\ refillIntervalNanos > 0) =>
    \A p \in Procs :
      pc[p] \in {"cas", "done"} =>
        LET b == unpack(existing[p])
            rate == refillIntervalNanos
            e == Since(Unix(now[p]), b.stamp)
            want == Min(burstCapacity, b.level + e \div rate)
        IN  (e >= rate /\ e % rate = 0 /\ b.level <= burstCapacity) =>
              /\ refill(b, now[p], rate, burstCapacity).level = want
              /\ pc[p] = "done" => ret[p] = (want > 0)
              /\ (pc[p] = "done" /\ op[p] = "take" /\ want > 0) =>
                    level(buckets[idx[p]]) = want - 1

\* a TakeToken call found level 200 of 255 after 100 intervals (the sum
\* passes the width of the level byte) and left the bucket one below full
C12_Witness ==
  /\ constructed /\ burstCapacity = Pow2(8) - 1
  /\ pc[1] = "done" /\ op[1] = "take" /\ ret[1]
  /\ level(existing[1]) = 200
  /\ Since(Unix(now[1]), stamp(existing[1])) = 100 * refillIntervalNanos
  /\ level(buckets[0]) = burstCapacity - 1

\* tokens the bucket of call p has been credited since construction, as the
\* call sees them: the level the call leaves (TakeToken) or computes
\* (Check), plus the tokens handed out, less the initial burstCapacity
credited(p) ==
  LET i == idx[p]
      seen == IF op[p] = "take"
              THEN level(buckets[i])
              ELSE refill(unpack(existing[p]), now[p], refillIntervalNanos,
                          burstCapacity).level
  IN  seen + wins[i] - burstCapacity

(* C13: non-drift: for one caller making calls at non-decreasing times,    *)
(* the last at T + E (T the construction stamp), with no refill cut short  *)
(* by burstCapacity, the tokens credited by refill total floor(E / rate),  *)
(* however many calls were made in between and whenever.                   *)
C13_NonDrift ==
  (constructed /\ refillIntervalNanos > 0) =>
    \A p \in Procs :
      ( /\ pc[p] = "done" /\ now[p] = lastRead
        /\ ~sat[idx[p]]
        /\ ~saturates(unpack(existing[p]), now[p], refillIntervalNanos,
                      burstCapacity) )
      => credited(p) = (now[p] - t0) \div refillIntervalNanos

\* two tokens were credited over five nanoseconds at one token per two,
\* with a call in between that fell between two token times
C13_Witness ==
  /\ constructed /\ refillIntervalNanos = 2
  /\ pc[1] = "done" /\ op[1] = "take" /\ now[1] = t0 + 5
  /\ ~sat[0] /\ wins[0] = 4 /\ ncalls = 4
  /\ credited(1) = 2

\* the reading of call p is not later than the stamp of word w
notLater(p, w) == Since(Unix(now[p]), stamp(w)) <= 0

(* C14: a clock standing still or stepping back: when a call's reading is  *)
(* not later than the stamp of the word it loaded, refill changes nothing: *)
(* the call does not panic, TakeToken succeeds exactly when the stored     *)
(* level is positive, lowers the level by its own token at most and leaves *)
(* the stamp alone, and Check answers from the stored level alone.         *)
C14_ClockNotAhead ==
  [][constructed =>
      \A p \in Procs :
        LET i == idx[p]
        IN  /\ (pc[p] = "cas" /\ op[p] = "take" /\ pc'[p] # "cas"
                 /\ notLater(p, existing[p])) =>
                  /\ pc'[p] # "panic"
                  /\ pc'[p] = "done" =>
                       /\ ret'[p] = (level(existing[p]) > 0)
                       /\ stamp(buckets'[i]) = stamp(buckets[i])
                       /\ level(buckets'[i]) =
                            level(buckets[i]) - (IF ret'[p] THEN 1 ELSE 0)
            /\ (pc[p] = "load" /\ op[p] = "check" /\ pc'[p] # "load"
                 /\ notLater(p, buckets[i])) =>
                  /\ pc'[p] = "done"
                  /\ ret'[p] = (level(buckets[i]) > 0)
                  /\ buckets' = buckets]_vars

\* with a negative interval, where only the early return keeps the time
\* behind the stamp from counting as tokens, a second TakeToken call made
\* after the clock stepped back took the last token and left the stamp
C14_Witness ==
  /\ constructed /\ refillIntervalNanos < 0 /\ burstCapacity = 2
  /\ pc[1] = "done" /\ op[1] = "take" /\ ret[1] /\ now[1] < t0
  /\ wins[0] = 2
  /\ buckets[0] = packed(newTokenBucket(0, Unix(t0)))

\* the low seven bits of the 64-bit FNV-1a hash of the identifiers of
\* IndexIds, from the published values of the hash:
\*   ""       cbf29ce484222325      0x00  af63bd4c8601b7df
\*   0x01     af63bc4c8601b62c      "a"   af63dc4c8601ec8c
\*   0xff     af64724c8602eb6e      "ab"  089c4407b545986a
\*   "foobar" 85944171f73967e8
Fnv1a64Low(id) ==
  CASE id = << >> -> 37
    [] id = <<0>> -> 95
    [] id = <<1>> -> 44
    [] id = <<97>> -> 12
    [] id = <<255>> -> 110
    [] id = <<97, 98>> -> 106
    [] id = <<102, 111, 111, 98, 97, 114>> -> 104

(* C15: sharding: for every identifier, the empty one included, and every  *)
(* accepted numBuckets, a call's bucket index lies in 0 .. numBuckets - 1  *)
(* and is the 64-bit FNV-1a hash of the identifier masked with             *)
(* numBuckets - 1; the mask never changes, so the same identifier maps to  *)
(* the same index on every call.                                           *)
C15_Sharding ==
  [][constructed =>
      /\ bucketMask' = bucketMask /\ numBuckets' = numBuckets
      /\ bucketMask = numBuckets - 1
      /\ \A p \in Procs, id \in IndexIds :
           (TakeToken(p, id) \/ Check(p, id)) =>
             /\ idx'[p] \in 0 .. numBuckets - 1
             /\ idx'[p] = Fnv1a64Low(id) % numBuckets]_vars

\* on a limiter of 64 buckets the caller's second call, like its first,
\* went to bucket 40, the masked hash of "foobar"
C15_Witness ==
  /\ constructed /\ numBuckets = 64
  /\ ncalls = 2 /\ pc[1] = "done" /\ idx[1] = 40
  /\ level(buckets[40]) = 0
  /\ \A j \in 0 .. 63 : j # 40 => level(buckets[j]) = 1

\* what the steps of a TakeToken call of p do to the words: a successful
\* return is one compare-and-swap of the loaded word to another word, a
\* lost compare-and-swap writes nothing and goes back to the load, and the
\* load reads the word as it is then
casProtocol(p) ==
  LET i == idx[p]
  IN  /\ (pc[p] = "cas" /\ pc'[p] = "done" /\ ret'[p]) =>
            /\ swaps'[p] = 1
            /\ buckets[i] = existing[p]
            /\ buckets'[i] # existing[p]
            /\ \A j \in DOMAIN buckets : j # i => buckets'[j] = buckets[j]
      /\ (pc[p] = "cas" /\ pc'[p] = "load") =>
            /\ buckets' = buckets
            /\ swaps'[p] = 0 /\ retried'[p]
      /\ (pc[p] = "load" /\ pc'[p] = "cas") =>
            /\ existing'[p] = buckets[i]
            /\ buckets' = buckets

(* C16 as stated: the value TakeToken returns matches what it wrote: a     *)
(* call that returns false performed no store and no compare-and-swap at   *)
(* all and leaves the word unchanged; a call that returns true made        *)
(* exactly one successful compare-and-swap to a different word; a failed   *)
(* compare-and-swap restarts from a fresh load.                            *)
C16_AsStated ==
  [][constructed =>
      \A p \in Procs :
        op[p] = "take" =>
          /\ (pc[p] = "cas" /\ pc'[p] = "done" /\ ~ret'[p]) =>
                /\ buckets' = buckets
                /\ swaps'[p] = 0 /\ ~retried'[p]
          /\ casProtocol(p)]_vars

(* C16: the value TakeToken returns matches what it wrote: a call that     *)
(* returns false stored nothing, made no successful compare-and-swap, and  *)
(* issued none in the pass it returns from, so the word is as it was (a    *)
(* failed take never publishes a refill; an earlier pass of the call may   *)
(* have lost a compare-and-swap); a call that returns true made exactly    *)
(* one successful compare-and-swap, on the word it loaded and to a         *)
(* different word; a failed compare-and-swap restarts from a fresh load.   *)
C16_ReturnMatchesWrites ==
  [][constructed =>
      \A p \in Procs :
        op[p] = "take" =>
          /\ (pc[p] = "cas" /\ pc'[p] = "done" /\ ~ret'[p]) =>
                /\ buckets' = buckets
                /\ swaps'[p] = 0
                /\ retried'[p] = retried[p]
          /\ casProtocol(p)]_vars

\* a call lost its compare-and-swap, loaded the word the winner had left,
\* found it empty and returned false; the winner returned true
C16_Witness ==
  /\ constructed /\ burstCapacity = 1
  /\ \E p, q \in Procs :
       /\ idx[p] = idx[q]
       /\ pc[p] = "done" /\ op[p] = "take" /\ ~ret[p] /\ retried[p]
       /\ swaps[p] = 0 /\ existing[p] = buckets[idx[p]]
       /\ pc[q] = "done" /\ op[q] = "take" /\ ret[q] /\ swaps[q] = 1

(* C17: the retry loop is lock-free: a TakeToken call goes back to the     *)
(* load only when the word of its bucket is no longer the word it loaded   *)
(* (another call's compare-and-swap succeeded in between), and with        *)
(* finitely many calls and a fair scheduler every call in flight           *)
(* eventually returns.                                                     *)
C17_LockFree ==
  /\ [][\A p \in Procs :
          (pc[p] = "cas" /\ pc'[p] = "load") =>
            buckets[idx[p]] # existing[p]]_vars
  /\ \A p \in Procs : (pc[p] \in {"load", "cas"}) ~> (pc[p] = "done")

(* C18: buckets are independent: a word changes only in the step in which  *)
(* a TakeToken call mapped to that very bucket returns, so a call mapped   *)
(* to bucket i never changes the word of a bucket j # i; and what a call   *)
(* returns is a function of the word of its own bucket that it loaded, its *)
(* clock reading and the limiter's configuration.                          *)
C18_BucketsIndependent ==
  [][constructed =>
      /\ \A j \in DOMAIN buckets :
           buckets'[j] # buckets[j] =>
             \E p \in Procs :
               /\ idx[p] = j /\ op[p] = "take"
               /\ pc[p] = "cas" /\ pc'[p] = "done"
      /\ \A p \in Procs :
           /\ (pc[p] = "load" /\ pc'[p] = "cas") =>
                 existing'[p] = buckets[idx[p]]
           /\ (pc[p] = "cas" /\ pc'[p] = "done") =>
                 ret'[p] = atomicTake(existing[p], now[p],
                                      refillIntervalNanos,
                                      burstCapacity).taken
           /\ (pc[p] = "load" /\ pc'[p] = "done") =>
                 ret'[p] = (available(buckets[idx[p]], now[p]) > 0)]_vars

\* with one token per bucket, a call on bucket 0 and a call on bucket 1
\* each took the token of its own bucket
C18_Witness ==
  /\ constructed /\ numBuckets = 2 /\ burstCapacity = 1
  /\ \E p, q \in Procs :
       /\ idx[p] = 0 /\ idx[q] = 1
       /\ pc[p] = "done" /\ op[p] = "take" /\ ret[p]
       /\ pc[q] = "done" /\ op[q] = "take" /\ ret[q]
       /\ level(buckets[0]) = 0 /\ level(buckets[1]) = 0

(* C19: with a positive interval and inside the wraparound window, the     *)
(* stamp of every bucket never moves back in any step and is never later   *)
(* than the latest clock reading taken so far, also when a call writes     *)
(* with a reading older than another call's.                               *)
C19_StampMonotone ==
  [][(constructed /\ refillIntervalNanos > 0) =>
      \A i \in DOMAIN buckets :
        /\ Since(stamp(buckets'[i]), stamp(buckets[i])) >= 0
        /\ Since(Unix(lastRead'), stamp(buckets'[i])) >= 0]_vars

\* a call that read the clock before another call moved the stamp past
\* its reading has since taken a token, and the stamp stayed where the
\* other call put it
C19_Witness ==
  /\ constructed
  /\ \E p \in Procs :
       /\ pc[p] = "done" /\ op[p] = "take" /\ ret[p] /\ swaps[p] = 1
       /\ Since(Unix(now[p]), stamp(existing[p])) < 0
       /\ stamp(buckets[0]) = stamp(existing[p])
       /\ Since(stamp(buckets[0]), Unix(t0)) > 0

\* the stamp of word w lies a whole number of intervals after the stamp
\* that construction gave every bucket
aligned(w) ==
  Since(stamp(w), Unix(t0)) % refillIntervalNanos = 0

(* C20: with a positive interval, the stamp of every bucket differs from   *)
(* the construction stamp by a whole multiple of the interval in every     *)
(* reachable state; the write of a TakeToken call leaves the stamp unmoved *)
(* when its refill did not change the level, and otherwise advances it by  *)
(* elapsed - (elapsed mod interval), also when the level is cut at         *)
(* burstCapacity.                                                          *)
C20_StampAligned ==
  [][(constructed /\ refillIntervalNanos > 0) =>
      /\ \A i \in DOMAIN buckets : aligned(buckets'[i])
      /\ \A p \in Procs :
           (pc[p] = "cas" /\ pc'[p] = "done" /\ ret'[p]) =>
             LET old == existing[p]
                 new == buckets'[idx[p]]
                 elapsed == Since(Unix(now[p]), stamp(old))
                 whole == elapsed - (elapsed % refillIntervalNanos)
             IN  IF level(new) = level(old) - 1
                 THEN stamp(new) = stamp(old)
                 ELSE /\ elapsed > 0
                      /\ Since(stamp(new), stamp(old)) = whole]_vars

\* at one token per two nanoseconds a call three nanoseconds after the
\* first found room for one token and tokens due for one: the level was
\* cut at burstCapacity and the stamp moved two nanoseconds, not three
C20_Witness ==
  /\ constructed /\ refillIntervalNanos = 2
  /\ \E p \in Procs :
       /\ pc[p] = "done" /\ op[p] = "take" /\ ret[p]
       /\ now[p] = t0 + 3
       /\ existing[p] = packed(newTokenBucket(burstCapacity - 1, Unix(t0)))
       /\ buckets[0] = packed(newTokenBucket(burstCapacity - 1, Unix(t0 + 2)))
       /\ sat[0]

=============================================================================
